---- MODULE Spec2Model ----
(***************************************************************************)
(* Model of the database benchmark plugin (server/api.go): the two HTTP    *)
(* handlers TestDatabase (/test, "rpc") and TestDatabaseRaw (/test_raw,    *)
(* "raw") and the routine runDatabaseTest they share.  Every database      *)
(* round trip of a request is one step, so requests interleave between     *)
(* round trips; the code a handler runs between two round trips (parsing,  *)
(* building the response, the deferred db.Close) belongs to the step of    *)
(* the round trip before it.                                               *)
(*                                                                         *)
(* The table plugin_test_rpc is modelled by the number of committed rows.  *)
(* Rows inserted through an open transaction are held in that request's    *)
(* txRows until Commit, and are discarded by Rollback.  The table exists   *)
(* from the start (an earlier run created it), so CREATE TABLE IF NOT      *)
(* EXISTS leaves its rows alone; a table created empty would need 50000    *)
(* iterations of the insert loop and is outside the bounds.                *)
(***************************************************************************)
EXTENDS Integers, Sequences, FiniteSets, TLC

VARIABLES configDriver, tableCount, req

vars == <<configDriver, tableCount, req>>

\* const totalRecords = 50000
totalRecords == 50000

\* pageSize := 100 // Default page size
DefaultPageSize == 100

\* The table found by the first request holds between totalRecords -
\* MaxMissing and totalRecords rows, so one insert loop runs at most
\* MaxMissing iterations.
MaxMissing == 2

\* The requests in flight at the same time (concurrent specification).
Requests == {1, 2}

model_DatabaseDriverMysql == "mysql"
model_DatabaseDriverPostgres == "postgres"

\* Values of config.SqlSettings.DriverName: the two supported dialects and
\* one that is neither.
DriverNames == {model_DatabaseDriverMysql, model_DatabaseDriverPostgres, "sqlite3"}

\* The page_size query parameters tried, as sequences of characters.  The
\* empty sequence is the absent parameter (Query().Get returns "").
PageSizeParams ==
    { <<>>,
      <<"a", "b", "c">>,
      <<"0">>,
      <<"-", "5">>,
      <<"1", "0", "0", "0", "0">>,
      <<"2", "0", "0", "0", "0">>,
      <<"4", "9", "9", "9", "9">>,
      <<"5", "0", "0", "0", "0">>,
      <<"+", "6", "0", "0", "0", "0">> }

\* The parameters of the concurrent specification (few scan pages each).
PageSizeParamsConc ==
    { <<"2", "0", "0", "0", "0">>,
      <<"+", "6", "0", "0", "0", "0">> }

----------------------------------------------------------------------------
(* strconv.Atoi as called at api.go:69 and api.go:109 *)

Digits == <<"0", "1", "2", "3", "4", "5", "6", "7", "8", "9">>

IsDigit(ch) == \E d \in 1..10 : Digits[d] = ch

DigitVal(ch) == (CHOOSE d \in 1..10 : Digits[d] = ch) - 1

RECURSIVE ParseDigits(_, _)
\* n = n*10 + int(ch) over the characters of s, left to right.
ParseDigits(s, n) ==
    IF s = <<>> THEN n
    ELSE ParseDigits(Tail(s), n * 10 + DigitVal(Head(s)))

\* Atoi returns (value, err): an optional sign followed by one or more
\* decimal digits, anything else is a syntax error.  No parameter tried is
\* long enough to leave the int range.
Atoi(s) ==
    LET signed == s # <<>> /\ Head(s) \in {"-", "+"}
        body   == IF signed THEN Tail(s) ELSE s
    IN  IF body = <<>> \/ \E k \in 1..Len(body) : ~IsDigit(body[k])
        THEN [val |-> 0, err |-> TRUE]
        ELSE [val |-> IF signed /\ Head(s) = "-"
                      THEN 0 - ParseDigits(body, 0)
                      ELSE ParseDigits(body, 0),
              err |-> FALSE]

\* Mutant: the test written size >= 0.
EffectivePageSize_AcceptsZero(param) ==
    IF param # <<>> /\ ~Atoi(param).err /\ Atoi(param).val >= 0
    THEN Atoi(param).val
    ELSE DefaultPageSize

\* pageSize as parsed at the top of both handlers.
EffectivePageSize(param) ==
    IF param # <<>> /\ ~Atoi(param).err /\ Atoi(param).val > 0
    THEN Atoi(param).val
    ELSE DefaultPageSize

----------------------------------------------------------------------------
(* TestResult and the per-request state *)

\* The empty string (Go's zero value of Error); error texts are sequences of
\* the parts fmt.Sprintf / fmt.Errorf put together.
NoError == <<>>

\* TestResult{}
ZeroResult ==
    [ InsertTimeSeconds     |-> 0,
      TotalQueryTimeSeconds |-> 0,
      Error                 |-> NoError,
      ConnType              |-> "",
      RecordsQueried        |-> 0,
      PageSize              |-> 0 ]

\* A request that has not arrived.
IdleRequest ==
    [ pc            |-> "idle",
      connType      |-> "",         \* endpoint: "rpc" (/test) or "raw" (/test_raw)
      pageSizeParam |-> <<>>,       \* r.URL.Query().Get("page_size")
      pageSize      |-> 0,          \* pageSize / batchSize
      db            |-> "none",     \* raw *sql.DB: none, open, closed; rpc: host
      driverName    |-> "",         \* driverName passed to runDatabaseTest
      created       |-> FALSE,      \* CREATE TABLE IF NOT EXISTS succeeded
      counted       |-> FALSE,      \* SELECT COUNT(*) succeeded
      count         |-> 0,          \* var count int
      i             |-> 0,          \* insert loop index
      tx            |-> "none",     \* none, active, committed, rolledback, failed
      txRows        |-> 0,          \* rows inserted through tx, not yet committed
      inserted      |-> 0,          \* rows this request committed to the table
      rbErrLogged   |-> FALSE,      \* LogError("Failed to rollback transaction")
      offset        |-> 0,          \* scan loop offset
      pages         |-> <<>>,       \* the LIMIT/OFFSET queries answered
      rowsRead      |-> 0,          \* rows returned by the pages and decoded
      ticks         |-> 0,          \* round trips so far (this request's clock)
      startInsert   |-> 0,
      startTotalQuery |-> 0,
      result        |-> ZeroResult, \* result of runDatabaseTest
      status        |-> 0,          \* HTTP status written, 0 before the response
      body          |-> ZeroResult  \* the TestResult encoded as the response body
    ]

Min(a, b) == IF a < b THEN a ELSE b
Max(a, b) == IF a > b THEN a ELSE b

Init ==
    /\ configDriver \in DriverNames
    /\ tableCount \in (totalRecords - MaxMissing)..totalRecords
    /\ req = [r \in Requests |-> IdleRequest]

----------------------------------------------------------------------------
(* The HTTP layer *)

\* respondWithJSON: the status and the encoded TestResult.
respondWithJSON(s, statusCode, data) ==
    [s EXCEPT !.pc = "done", !.status = statusCode, !.body = data]

\* defer db.Close() of TestDatabaseRaw, run when the handler returns.
DeferredClose(s) == [s EXCEPT !.db = "closed"]

\* TestDatabase after runDatabaseTest returned (result, err).
TestDatabaseReturn(s, err) ==
    IF err # NoError
    THEN respondWithJSON(s, 500, [ZeroResult EXCEPT !.Error = err, !.ConnType = "rpc"])
    ELSE respondWithJSON(s, 200, [s.result EXCEPT !.ConnType = "rpc"])

\* Mutant: the error response of /test_raw is tagged like that of /test.
TestDatabaseRawReturn_WrongTag(s, err) ==
    DeferredClose(
        IF err # NoError
        THEN respondWithJSON(s, 500, [ZeroResult EXCEPT !.Error = err, !.ConnType = "rpc"])
        ELSE respondWithJSON(s, 200, [s.result EXCEPT !.ConnType = "raw"]))

\* Mutant: db.Close() is called at the end of the success path only.
TestDatabaseRawReturn_NoDefer(s, err) ==
    IF err # NoError
    THEN respondWithJSON(s, 500, [ZeroResult EXCEPT !.Error = err, !.ConnType = "raw"])
    ELSE DeferredClose(respondWithJSON(s, 200, [s.result EXCEPT !.ConnType = "raw"]))

\* TestDatabaseRaw after runDatabaseTest returned (result, err).
TestDatabaseRawReturn(s, err) ==
    DeferredClose(
        IF err # NoError
        THEN respondWithJSON(s, 500, [ZeroResult EXCEPT !.Error = err, !.ConnType = "raw"])
        ELSE respondWithJSON(s, 200, [s.result EXCEPT !.ConnType = "raw"]))

\* runDatabaseTest returns (s.result, err) to the handler that called it.
Return(s, err) ==
    IF s.connType = "rpc" THEN TestDatabaseReturn(s, err)
    ELSE TestDatabaseRawReturn(s, err)

\* GET /api/v1/test?page_size=param arrives: parse the page size.
TestDatabase(r, param) ==
    /\ req[r].pc \in {"idle", "done"}
    /\ req' = [req EXCEPT ![r] =
                 [IdleRequest EXCEPT !.pc = "GetMasterDB",
                                     !.connType = "rpc",
                                     !.pageSizeParam = param,
                                     !.pageSize = EffectivePageSize(param)]]
    /\ UNCHANGED <<configDriver, tableCount>>

\* store.GetMasterDB(): the host's handle, or an error.
GetMasterDB(r) ==
    /\ req[r].pc = "GetMasterDB"
    /\ \/ req' = [req EXCEPT ![r] =
                    [@ EXCEPT !.pc = "CreateTable",
                              !.driverName = configDriver]]
       \/ req' = [req EXCEPT ![r] =
                    respondWithJSON(@, 500,
                        [ZeroResult EXCEPT
                           !.Error = <<"Failed to get database: ", "store error">>,
                           !.ConnType = "rpc"])]
    /\ UNCHANGED <<configDriver, tableCount>>

\* GET /api/v1/test_raw?page_size=param arrives: parse the page size.
TestDatabaseRaw(r, param) ==
    /\ req[r].pc \in {"idle", "done"}
    /\ req' = [req EXCEPT ![r] =
                 [IdleRequest EXCEPT !.pc = "GetUnsanitizedConfig",
                                     !.connType = "raw",
                                     !.pageSizeParam = param,
                                     !.pageSize = EffectivePageSize(param)]]
    /\ UNCHANGED <<configDriver, tableCount>>

\* Mutant: the switch has no default case.
SupportedDriver_Any(name) == name \in DriverNames

\* The supported dialects of the switch in TestDatabaseRaw.
SupportedDriver(name) ==
    name \in {model_DatabaseDriverMysql, model_DatabaseDriverPostgres}

\* p.API.GetUnsanitizedConfig(), the switch on the driver name and sql.Open.
RawConnect(r) ==
    /\ req[r].pc = "GetUnsanitizedConfig"
    /\ \/ \* config == nil
          req' = [req EXCEPT ![r] =
                    respondWithJSON(@, 500,
                        [ZeroResult EXCEPT
                           !.Error = <<"Failed to get server configuration">>,
                           !.ConnType = "raw"])]
       \/ \* default: of the switch
          /\ ~SupportedDriver(configDriver)
          /\ req' = [req EXCEPT ![r] =
                    respondWithJSON(@, 500,
                        [ZeroResult EXCEPT
                           !.Error = <<"Unsupported database driver: ", configDriver>>,
                           !.ConnType = "raw"])]
       \/ \* sql.Open fails
          /\ SupportedDriver(configDriver)
          /\ req' = [req EXCEPT ![r] =
                    respondWithJSON(@, 500,
                        [ZeroResult EXCEPT
                           !.Error = <<"Failed to connect to database: ", "open error">>,
                           !.ConnType = "raw"])]
       \/ \* sql.Open succeeds; defer db.Close()
          /\ SupportedDriver(configDriver)
          /\ req' = [req EXCEPT ![r] =
                    [@ EXCEPT !.pc = "CreateTable",
                              !.db = "open",
                              !.driverName = configDriver]]
    /\ UNCHANGED <<configDriver, tableCount>>

----------------------------------------------------------------------------
(* runDatabaseTest *)

\* One database round trip of the request has completed.
Tick(s) == [s EXCEPT !.ticks = @ + 1]

\* Mutant: the records queried are taken from the loop variable.
ScanLoop_ReportsOffset(s) ==
    IF s.offset < totalRecords
    THEN [s EXCEPT !.pc = "ScanPage"]
    ELSE Return([s EXCEPT !.result.TotalQueryTimeSeconds = s.ticks - s.startTotalQuery,
                          !.result.RecordsQueried = s.offset],
                NoError)

\* for offset := 0; offset < totalRecords; ...: the loop test of the scan, and
\* the code after the loop (lines 298-302) when it is false.
ScanLoop(s) ==
    IF s.offset < totalRecords
    THEN [s EXCEPT !.pc = "ScanPage"]
    ELSE Return([s EXCEPT !.result.TotalQueryTimeSeconds = s.ticks - s.startTotalQuery,
                          !.result.RecordsQueried = totalRecords],
                NoError)

\* Lines 260-266: start the scan clock, record the page size, offset := 0.
StartScan(s) ==
    ScanLoop([s EXCEPT !.startTotalQuery = s.ticks,
                       !.result.PageSize = s.pageSize,
                       !.offset = 0])

\* Mutant: the loop test written i <= totalRecords.
InsertLoop_OneMore(s) ==
    IF s.i <= totalRecords
    THEN [s EXCEPT !.pc = "InsertRow"]
    ELSE [s EXCEPT !.pc = "Commit"]

\* Mutant: the loop test written i < totalRecords - 1.
InsertLoop_OneLess(s) ==
    IF s.i < totalRecords - 1
    THEN [s EXCEPT !.pc = "InsertRow"]
    ELSE [s EXCEPT !.pc = "Commit"]

\* for i := count; i < totalRecords; i++: the loop test of the insert loop.
InsertLoop(s) ==
    IF s.i < totalRecords
    THEN [s EXCEPT !.pc = "InsertRow"]
    ELSE [s EXCEPT !.pc = "Commit"]

\* Mutant: a failed Rollback replaces the error that is returned.
RollbackAndReturn_RbErrWins(s, rbErr, err) ==
    Return([s EXCEPT !.tx = "rolledback",
                     !.txRows = 0,
                     !.rbErrLogged = rbErr],
           IF rbErr THEN <<"failed to rollback transaction: ", "rollback error">>
           ELSE err)

\* tx.Rollback() on a failed prepare or insert: the rows of the transaction
\* are discarded whether or not Rollback reports an error (rbErr is only
\* logged), and err is returned.
RollbackAndReturn(s, rbErr, err) ==
    Return([s EXCEPT !.tx = "rolledback",
                     !.txRows = 0,
                     !.rbErrLogged = rbErr],
           err)

\* Mutant: the table is dropped and created again on every call.
CreateTable_DropFirst(r) ==
    /\ req[r].pc = "CreateTable"
    /\ req' = [req EXCEPT ![r] =
                 [Tick(@) EXCEPT !.pc = "CountRows", !.created = TRUE]]
    /\ tableCount' = 0
    /\ UNCHANGED configDriver

\* db.Exec(createTableSQL)
CreateTable(r) ==
    /\ req[r].pc = "CreateTable"
    /\ \/ req' = [req EXCEPT ![r] =
                    [Tick(@) EXCEPT !.pc = "CountRows", !.created = TRUE]]
       \/ req' = [req EXCEPT ![r] =
                    Return(Tick(@), <<"failed to create table: ", "exec error">>)]
    /\ UNCHANGED <<configDriver, tableCount>>

\* db.QueryRow(countSQL).Scan(&count) and the test count < totalRecords.
CountRows(r) ==
    /\ req[r].pc = "CountRows"
    /\ \/ LET s == [Tick(req[r]) EXCEPT !.counted = TRUE, !.count = tableCount]
          IN  req' = [req EXCEPT ![r] =
                        IF s.count < totalRecords
                        THEN [s EXCEPT !.pc = "Begin", !.startInsert = s.ticks]
                        ELSE StartScan(s)]
       \/ req' = [req EXCEPT ![r] =
                    Return(Tick(@), <<"failed to check record count: ", "query error">>)]
    /\ UNCHANGED <<configDriver, tableCount>>

\* db.Begin()
Begin(r) ==
    /\ req[r].pc = "Begin"
    /\ \/ req' = [req EXCEPT ![r] =
                    [Tick(@) EXCEPT !.pc = "Prepare", !.tx = "active"]]
       \/ req' = [req EXCEPT ![r] =
                    Return(Tick(@), <<"failed to begin transaction: ", "begin error">>)]
    /\ UNCHANGED <<configDriver, tableCount>>

\* tx.Prepare(INSERT ...), then i := count and the first loop test.
Prepare(r) ==
    /\ req[r].pc = "Prepare"
    /\ \/ req' = [req EXCEPT ![r] =
                    InsertLoop([Tick(@) EXCEPT !.i = req[r].count])]
       \/ \E rbErr \in BOOLEAN :
             req' = [req EXCEPT ![r] =
                       RollbackAndReturn(Tick(@), rbErr,
                           <<"failed to prepare statement: ", "prepare error">>)]
    /\ UNCHANGED <<configDriver, tableCount>>

\* Mutant: the statement is executed on db, outside the transaction.
InsertRow_OutsideTx(r) ==
    /\ req[r].pc = "InsertRow"
    /\ req' = [req EXCEPT ![r] = InsertLoop([Tick(@) EXCEPT !.i = @ + 1])]
    /\ tableCount' = tableCount + 1
    /\ UNCHANGED configDriver

\* insertStmt.Exec("Test data i"), then i++ and the loop test.
InsertRow(r) ==
    /\ req[r].pc = "InsertRow"
    /\ \/ req' = [req EXCEPT ![r] =
                    InsertLoop([Tick(@) EXCEPT !.txRows = @ + 1, !.i = @ + 1])]
       \/ \E rbErr \in BOOLEAN :
             req' = [req EXCEPT ![r] =
                       RollbackAndReturn(Tick(@), rbErr,
                           <<"failed to insert row ", req[r].i, "exec error">>)]
    /\ UNCHANGED <<configDriver, tableCount>>

\* tx.Commit(): the rows of the transaction reach the table together.  When
\* Commit reports an error the transaction is over and is not rolled back by
\* the code; the database has either dropped the rows or (acknowledgement
\* lost) kept them.
Commit(r) ==
    /\ req[r].pc = "Commit"
    /\ \/ /\ tableCount' = tableCount + req[r].txRows
          /\ req' = [req EXCEPT ![r] =
                LET s == Tick(@)
                IN  StartScan([s EXCEPT !.tx = "committed",
                                        !.inserted = s.txRows,
                                        !.txRows = 0,
                                        !.result.InsertTimeSeconds =
                                              s.ticks - s.startInsert])]
       \/ \E kept \in BOOLEAN :
             /\ tableCount' = IF kept THEN tableCount + req[r].txRows ELSE tableCount
             /\ req' = [req EXCEPT ![r] =
                   Return([Tick(@) EXCEPT !.tx = "failed",
                                          !.inserted = IF kept THEN req[r].txRows ELSE 0,
                                          !.txRows = 0],
                          <<"failed to commit transaction: ", "commit error">>)]
    /\ UNCHANGED configDriver

\* Mutant: the limit is not clamped at the target.
PageLimit_Unclamped(offset, batchSize) == batchSize

\* limit := batchSize; if offset+batchSize > totalRecords { limit = ... }
PageLimit(offset, batchSize) ==
    IF offset + batchSize > totalRecords
    THEN totalRecords - offset
    ELSE batchSize

\* The rows SELECT ... ORDER BY id LIMIT limit OFFSET offset returns from a
\* table of n rows.
RowsReturned(n, limit, offset) == Min(limit, Max(0, n - offset))

\* One iteration of the scan loop: db.Query, read every row, rows.Close(),
\* then offset += batchSize and the loop test.
ScanPage(r) ==
    /\ req[r].pc = "ScanPage"
    /\ LET s     == Tick(req[r])
           limit == PageLimit(s.offset, s.pageSize)
           n     == RowsReturned(tableCount, limit, s.offset)
           q     == [s EXCEPT !.pages = Append(@, [offset |-> s.offset, limit |-> limit])]
       IN  \/ req' = [req EXCEPT ![r] =
                        ScanLoop([q EXCEPT !.rowsRead = @ + n,
                                           !.offset = @ + s.pageSize])]
           \/ req' = [req EXCEPT ![r] =
                        Return(s, <<"failed to query rows at offset ", s.offset,
                                    "query error">>)]
           \/ /\ n > 0
              /\ \E k \in {0, n - 1} :
                    req' = [req EXCEPT ![r] =
                              Return([q EXCEPT !.rowsRead = @ + k],
                                     <<"failed to scan row: ", "scan error">>)]
    /\ UNCHANGED <<configDriver, tableCount>>

----------------------------------------------------------------------------
(* Specifications *)

\* The steps of the handler and the routine once request r has arrived.
Step(r) ==
    \/ GetMasterDB(r)
    \/ RawConnect(r)
    \/ CreateTable(r)
    \/ CountRows(r)
    \/ Begin(r)
    \/ Prepare(r)
    \/ InsertRow(r)
    \/ Commit(r)
    \/ ScanPage(r)

\* One request at a time, called again and again with any parameter.
Next ==
    \/ \E param \in PageSizeParams : TestDatabase(1, param)
    \/ \E param \in PageSizeParams : TestDatabaseRaw(1, param)
    \/ Step(1)

Spec == Init /\ [][Next]_vars

\* Requests served concurrently, interleaved between database round trips.
NextConc ==
    \E r \in Requests :
        \/ \E param \in PageSizeParamsConc : TestDatabase(r, param)
        \/ \E param \in PageSizeParamsConc : TestDatabaseRaw(r, param)
        \/ Step(r)

SpecConc == Init /\ [][NextConc]_vars

\* Repeated calls that do not overlap: a request arrives only when no other
\* request is in flight.
NextSeq ==
    \E r \in Requests :
        \/ /\ \A q \in Requests : req[q].pc \in {"idle", "done"}
           /\ \/ \E param \in PageSizeParamsConc : TestDatabase(r, param)
              \/ \E param \in PageSizeParamsConc : TestDatabaseRaw(r, param)
        \/ Step(r)

SpecSeq == Init /\ [][NextSeq]_vars

----------------------------------------------------------------------------
(* Properties *)

Finished(r) == req[r].pc = "done"
Succeeded(r) == req[r].pc = "done" /\ req[r].status = 200
Failed(r) == req[r].pc = "done" /\ req[r].status = 500

\* C1: a successful call that observed a count c below the target has
\* committed exactly totalRecords - c rows and reports a positive insert
\* duration; a successful call that observed the table at (or above) the
\* target opened no transaction, committed zero rows and reports an insert
\* duration of 0.
C1_InsertsExactlyMissing ==
    \A r \in Requests :
        Succeeded(r) =>
            /\ req[r].count < totalRecords =>
                  /\ req[r].inserted = totalRecords - req[r].count
                  /\ req[r].tx = "committed"
                  /\ req[r].body.InsertTimeSeconds > 0
            /\ req[r].count >= totalRecords =>
                  /\ req[r].inserted = 0
                  /\ req[r].tx = "none"
                  /\ req[r].body.InsertTimeSeconds = 0

\* One call topped the table up from below the target and another call
\* then found it at the target and inserted nothing.
C1_Witness ==
    \E r, q \in Requests :
        /\ Succeeded(r) /\ req[r].count < totalRecords
        /\ req[r].inserted = totalRecords - req[r].count
        /\ Succeeded(q) /\ req[q].count = totalRecords
        /\ req[q].inserted = 0 /\ req[q].body.InsertTimeSeconds = 0

\* C2: over calls that do not overlap the row count never passes the target,
\* every successful call leaves it at exactly the target, and once at the
\* target it stays there through every later step.
C2_ConvergesAndStays ==
    /\ [](tableCount <= totalRecords)
    /\ [](\A r \in Requests : Succeeded(r) => tableCount = totalRecords)
    /\ [][tableCount = totalRecords => tableCount' = totalRecords]_vars

\* A first call brought the table to the target and a later call, finding
\* it there, left it there.
C2_Witness ==
    /\ tableCount = totalRecords
    /\ \E r, q \in Requests :
          /\ Succeeded(r) /\ req[r].inserted > 0
          /\ Succeeded(q) /\ req[q].count = totalRecords /\ req[q].inserted = 0
          /\ req[q].connType # req[r].connType

\* C3: a call whose insert phase failed on prepare or on a row has been
\* rolled back: it is finished with status 500, none of its rows reached the
\* table, whose row count is the one the call found, and the error text is
\* that of the prepare or insert failure (naming the failed row), whether
\* or not the rollback itself failed.
C3_FailedInsertLeavesTable ==
    \A r \in Requests :
        req[r].tx = "rolledback" =>
            /\ Failed(r)
            /\ req[r].txRows = 0 /\ req[r].inserted = 0
            /\ tableCount = req[r].count
            /\ req[r].pages = <<>>
            /\ \/ req[r].body.Error = <<"failed to prepare statement: ", "prepare error">>
               \/ /\ req[r].body.Error = <<"failed to insert row ", req[r].i, "exec error">>
                  /\ req[r].i \in req[r].count..(totalRecords - 1)

\* Row N failed after earlier rows of the batch had been inserted, and the
\* rollback failed as well.
C3_Witness ==
    \E r \in Requests :
        /\ req[r].tx = "rolledback" /\ req[r].rbErrLogged
        /\ req[r].i > req[r].count
        /\ req[r].body.Error = <<"failed to insert row ", req[r].i, "exec error">>
        /\ tableCount = req[r].count

\* The pages of a scan with batch size b: page k is at offset (k-1)*b.
PagesWellFormed(pages, b) ==
    \A k \in 1..Len(pages) :
        /\ pages[k].offset = (k - 1) * b
        /\ pages[k].offset < totalRecords
        /\ pages[k].limit = Min(b, totalRecords - pages[k].offset)
        /\ pages[k].limit > 0
        /\ pages[k].offset + pages[k].limit <= totalRecords
        /\ k < Len(pages) => pages[k + 1].offset = pages[k].offset + pages[k].limit

\* C4: every page issued is at a multiple of the batch size below the
\* target, its limit is min(b, target - offset), consecutive pages are
\* contiguous, and a completed scan has issued ceil(target / b) pages that
\* end exactly at the target; b = 10000 issues the offsets 0, 10000, 20000,
\* 30000, 40000.
C4_PagesCoverTarget ==
    \A r \in Requests :
        /\ PagesWellFormed(req[r].pages, req[r].pageSize)
        /\ Succeeded(r) =>
              LET pages == req[r].pages
                  n     == Len(pages)
              IN  /\ n * req[r].pageSize >= totalRecords
                  /\ (n - 1) * req[r].pageSize < totalRecords
                  /\ pages[1].offset = 0
                  /\ pages[n].offset + pages[n].limit = totalRecords
                  /\ req[r].rowsRead = totalRecords
                  /\ req[r].pageSize = 10000 =>
                        [k \in 1..n |-> pages[k].offset] =
                            <<0, 10000, 20000, 30000, 40000>>

\* A completed scan whose batch size does not divide the target: the last
\* of its three pages asks for fewer rows than the batch size.
C4_Witness ==
    \E r \in Requests :
        /\ Succeeded(r) /\ req[r].pageSize = 20000
        /\ Len(req[r].pages) = 3
        /\ req[r].pages[3] = [offset |-> 40000, limit |-> 10000]

\* C5: every successful response reports records_queried = totalRecords.
C5_RecordsQueriedIsTarget ==
    \A r \in Requests :
        Succeeded(r) => req[r].body.RecordsQueried = totalRecords

\* A successful run whose batch size exceeds the target (one clamped page).
C5_Witness ==
    \E r \in Requests :
        /\ Succeeded(r) /\ req[r].pageSize > totalRecords
        /\ Len(req[r].pages) = 1
        /\ req[r].body.RecordsQueried = totalRecords

\* C6: while the configured driver is neither mysql nor postgres, a
\* /test_raw request never opens a connection and never runs any step of
\* the benchmark, and once the configuration has been obtained its
\* response is the 500 "Unsupported database driver" error.
C6_UnsupportedDriverRejected ==
    \A r \in Requests :
        (req[r].connType = "raw"
            /\ configDriver \notin {model_DatabaseDriverMysql, model_DatabaseDriverPostgres}) =>
            /\ req[r].db = "none"
            /\ req[r].ticks = 0 /\ ~req[r].created /\ ~req[r].counted
            /\ req[r].pc \in {"GetUnsanitizedConfig", "done"}
            /\ Finished(r) =>
                  /\ req[r].status = 500
                  /\ req[r].body.ConnType = "raw"
                  /\ \/ req[r].body.Error = <<"Unsupported database driver: ", configDriver>>
                     \/ req[r].body.Error = <<"Failed to get server configuration">>

\* A /test_raw request answered with the unsupported-driver error.
C6_Witness ==
    \E r \in Requests :
        /\ Finished(r) /\ req[r].connType = "raw" /\ configDriver = "sqlite3"
        /\ req[r].body.Error = <<"Unsupported database driver: ", "sqlite3">>
        /\ req[r].db = "none"

\* The phases of runDatabaseTest a request has completed.
SchemaEnsured(r) == req[r].created
CountChecked(r) == req[r].counted
InsertDone(r) ==
    IF req[r].count < totalRecords THEN req[r].tx = "committed" ELSE req[r].tx = "none"
ScanDone(r) ==
    /\ req[r].pages # <<>>
    /\ req[r].offset >= totalRecords
    /\ req[r].rowsRead = totalRecords

\* The error texts of the phases, by their first part.
PhaseErrors ==
    { "Failed to get database: ", "Failed to get server configuration",
      "Unsupported database driver: ", "Failed to connect to database: ",
      "failed to create table: ", "failed to check record count: ",
      "failed to begin transaction: ", "failed to prepare statement: ",
      "failed to insert row ", "failed to commit transaction: ",
      "failed to query rows at offset ", "failed to scan row: " }

ExpectedPageSize(param) ==
    CASE param = <<>> -> 100
      [] param = <<"a", "b", "c">> -> 100
      [] param = <<"0">> -> 100
      [] param = <<"-", "5">> -> 100
      [] param = <<"1", "0", "0", "0", "0">> -> 10000
      [] param = <<"2", "0", "0", "0", "0">> -> 20000
      [] param = <<"4", "9", "9", "9", "9">> -> 49999
      [] param = <<"5", "0", "0", "0", "0">> -> 50000
      [] param = <<"+", "6", "0", "0", "0", "0">> -> 60000

\* C8: once a request of either endpoint has arrived its batch size is the
\* page_size parameter when that is a positive integer and 100 otherwise,
\* so it is positive, and a successful response's page_size is that value.
C8_EffectivePageSize ==
    \A r \in Requests :
        req[r].pc # "idle" =>
            /\ req[r].pageSize = ExpectedPageSize(req[r].pageSizeParam)
            /\ req[r].pageSize > 0
            /\ req[r].status = 200 => req[r].body.PageSize = req[r].pageSize

\* A successful /test_raw run with a negative parameter, scanned by 100.
C8_Witness ==
    \E r \in Requests :
        /\ Succeeded(r) /\ req[r].connType = "raw"
        /\ req[r].pageSizeParam = <<"-", "5">>
        /\ req[r].body.PageSize = 100
        /\ Len(req[r].pages) = 500

\* C9: under concurrent requests the table changes only in a Commit step,
\* and then by the whole batch of that request (the rows missing when it
\* counted), never by part of one; the count and the commit are separate
\* steps, so nothing keeps the table at or below the target.
C9_OnlyBatchIsAtomic ==
    [][tableCount' # tableCount =>
          \E r \in Requests :
              /\ req[r].pc = "Commit"
              /\ req[r].count < totalRecords
              /\ req[r].count <= tableCount
              /\ tableCount' = tableCount + (totalRecords - req[r].count)]_vars

\* Two requests counted the same rows below the target and both committed
\* their batch: the table holds more than the target.
C9_Witness ==
    /\ tableCount > totalRecords
    /\ \E r, q \in Requests :
          /\ r # q
          /\ req[r].count = req[q].count /\ req[r].count < totalRecords
          /\ req[r].tx = "committed" /\ req[q].tx = "committed"
          /\ tableCount = req[r].count + req[r].inserted + req[q].inserted

\* C10: a finished /test_raw request holds no open connection: the
\* connection it opened, if any, is closed, whether the benchmark succeeded
\* or failed in any phase; while the benchmark runs the connection is open.
C10_RawConnectionClosed ==
    \A r \in Requests :
        req[r].connType = "raw" =>
            /\ Finished(r) => req[r].db \in {"none", "closed"}
            /\ Finished(r) /\ req[r].ticks > 0 => req[r].db = "closed"
            /\ req[r].pc \notin {"idle", "GetUnsanitizedConfig", "done"}
                  => req[r].db = "open"

\* A /test_raw request whose benchmark failed during the insert phase and
\* whose connection is closed.
C10_Witness ==
    \E r \in Requests :
        /\ Failed(r) /\ req[r].connType = "raw"
        /\ req[r].tx = "rolledback"
        /\ req[r].db = "closed"

\* C11: under any interleaving of requests no step lowers the row count (a
\* dropped table would lose all its rows, and the table is never empty
\* here); no step of a request that counted at or above the target changes
\* it, nor does the arrival of the next request in its place; and no scan
\* step changes it.
C11_RowsNeverRemoved ==
    [][/\ tableCount' >= tableCount
       /\ tableCount > 0 => tableCount' > 0
       /\ \A r \in Requests :
             req'[r] # req[r] =>
                 /\ (req[r].counted /\ req[r].count >= totalRecords)
                       => tableCount' = tableCount
                 /\ req[r].pc \in {"CreateTable", "CountRows", "ScanPage"}
                       => tableCount' = tableCount]_vars

\* After an overshoot a call counted more than the target, inserted
\* nothing, scanned every page and succeeded, and the table still holds
\* the rows it counted.
C11_Witness ==
    \E r \in Requests :
        /\ Succeeded(r)
        /\ req[r].count > totalRecords
        /\ req[r].inserted = 0 /\ req[r].tx = "none"
        /\ req[r].rowsRead = totalRecords
        /\ tableCount = req[r].count
====
